---- MODULE Spec2Model ----
(***************************************************************************)
(* Model of schedule.py (wxs/bumptv): one run of main() building a looped  *)
(* broadcast schedule.                                                     *)
(*                                                                         *)
(* Time is counted in whole seconds.  A datetime is a record               *)
(* [day, sec] (day number, second of the day), a duration is an integer    *)
(* number of seconds.  Durations returned by the probe are sampled as      *)
(* multiples of half a day; rounding of a float duration to the            *)
(* microsecond resolution of timedelta is below the grain of the model.    *)
(***************************************************************************)
EXTENDS Integers, Sequences, FiniteSets, TLC

\* ------------------------------------------------------------------ bounds
NumVideos == 2          \* entries of the metadata file, keys 1..NumVideos
MaxLen == 3             \* longest schedule file (list of keys)
MaxDays == 7            \* largest --days argument
MaxDurK == 2            \* longest probed duration, in half days

SecondsPerDay == 86400  \* datetime.timedelta(days=1) in seconds
DurUnit == SecondsPerDay \div 2

VideoKeys == 1..NumVideos
UnknownKey == NumVideos + 1            \* a key that is not in the metadata
ScheduleKeys == VideoKeys \cup {UnknownKey}
Durations == {k * DurUnit : k \in (-1)..MaxDurK}
\* --days: a negative value, the smallest windows and the largest one
Days == ((-1)..2) \cup {MaxDays}
Starts == {[day |-> 0, sec |-> s] : s \in {0, 3 * (DurUnit \div 2)}}
\* No run whose durations are all positive emits more pairs than this; the
\* generator is cut off there when non-positive durations keep it running.
MaxEmit == (MaxDays * SecondsPerDay) \div DurUnit + 2

VARIABLES
    fileExists,      \* os.path.exists(filename) for every metadata entry
    sched_keys,      \* content of the schedule file
    start_datetime,  \* parse_date(start_date)
    days,            \* --days
    loaded,          \* keys of the dict built by load_videos
    duration_,       \* Video._duration per key: <<>> is None, <<d>> a value
    probeCount,      \* calls of ffprobe.duration per key
    firstProbe,      \* value returned by the first successful probe per key
    lastRead,        \* <<>> or <<key, value>>: the latest Video.duration read
    videos,          \* Schedule.videos
    gen,             \* the running looped_programming generator
    emitted,         \* pairs yielded by the current generator
    result,          \* write_schedule_json's result list
    build,           \* the build directory and its two files
    pc,              \* position in main
    i,               \* index of the running for loop
    error            \* the exception that ended the run

vars == <<fileExists, sched_keys, start_datetime, days, loaded, duration_,
          probeCount, firstProbe, lastRead, videos, gen, emitted, result,
          build, pc, i, error>>

inputs == <<fileExists, sched_keys, start_datetime, days>>
cache == <<duration_, probeCount, firstProbe, lastRead>>

\* --------------------------------------------------------------- datetime
\* timedelta addition that drops the carry into the day number
DtAddSecondsNoCarry(t, s) == [day |-> t.day, sec |-> (t.sec + s) % SecondsPerDay]

\* an addition that leaves t where it was
DtAddSecondsStuck(t, s) == t

DtAddSeconds(t, s) ==
    LET total == t.sec + s
    IN  [day |-> t.day + (total \div SecondsPerDay), sec |-> total % SecondsPerDay]

DtAddDays(t, n) == [day |-> t.day + n, sec |-> t.sec]

\* a comparison of the dates only
DtGreaterDayOnly(a, b) == a.day > b.day

DtGreater(a, b) == a.day > b.day \/ (a.day = b.day /\ a.sec > b.sec)

Timestamp(t) == t.day * SecondsPerDay + t.sec

\* ------------------------------------------------------------------ Video
\* a constructor without the os.path.exists check
FileFoundAlways(k) == TRUE

FileFound(k) == fileExists[k]

\* a property without the "is None" test
AlwaysProbe(c) == TRUE

NeedsProbe(c) == c = <<>>

\* What one call of ffprobe.duration can do: return a number of seconds,
\* any of them at every call, or raise.
ProbeOutcomes ==
    {[ok |-> TRUE, val |-> d, probed |-> TRUE] : d \in Durations}
    \cup {[ok |-> FALSE, val |-> 0, probed |-> TRUE]}

\* The outcomes of reading Video.duration of key k.
AccessResults(k) ==
    IF NeedsProbe(duration_[k])
    THEN ProbeOutcomes
    ELSE {[ok |-> TRUE, val |-> duration_[k][1], probed |-> FALSE]}

NoAccess == [ok |-> TRUE, val |-> 0, probed |-> FALSE]

\* The effect of reading Video.duration of key k with outcome r.
Access(k, r) ==
    /\ probeCount' = IF r.probed THEN [probeCount EXCEPT ![k] = @ + 1] ELSE probeCount
    /\ duration_' = IF r.probed /\ r.ok THEN [duration_ EXCEPT ![k] = <<r.val>>] ELSE duration_
    /\ firstProbe' = IF r.probed /\ r.ok /\ firstProbe[k] = <<>>
                     THEN [firstProbe EXCEPT ![k] = <<r.val>>] ELSE firstProbe
    /\ lastRead' = IF r.ok THEN <<k, r.val>> ELSE lastRead

\* --------------------------------------------------------------- Schedule
\* the break test written with >=
PastEndGeq(t, end_t) == DtGreater(t, end_t) \/ t = end_t

PastEnd(t, end_t) == DtGreater(t, end_t)

\* a cycle that skips one video at every step
NextIndexSkip(ci, n) == ((ci + 1) % n) + 1

NextIndex(ci, n) == (ci % n) + 1

FreshGen == [state |-> "fresh", t |-> start_datetime, end_t |-> start_datetime, ci |-> 0]

\* One next() of the generator g; r is the outcome of the duration read it
\* makes when it resumes after a yield.
GenAdvance(g, r) ==
    IF g.state = "fresh"
    THEN LET t0 == start_datetime
             e == DtAddDays(t0, days)
         IN  IF Len(videos) = 0
             THEN [gen |-> [state |-> "done", t |-> t0, end_t |-> e, ci |-> 0],
                   out |-> <<>>]
             ELSE [gen |-> [state |-> "yielded", t |-> t0, end_t |-> e, ci |-> 1],
                   out |-> <<[t |-> t0, video |-> videos[1]]>>]
    ELSE LET t1 == DtAddSeconds(g.t, r.val)
             c1 == NextIndex(g.ci, Len(videos))
         IN  IF PastEnd(t1, g.end_t)
             THEN [gen |-> [g EXCEPT !.state = "done", !.t = t1], out |-> <<>>]
             ELSE [gen |-> [g EXCEPT !.t = t1, !.ci = c1],
                   out |-> <<[t |-> t1, video |-> videos[c1]]>>]

GenReads == IF gen.state = "yielded" THEN AccessResults(videos[gen.ci]) ELSE {NoAccess}

GenCache(r) ==
    IF gen.state = "yielded" THEN Access(videos[gen.ci], r) ELSE UNCHANGED cache

Raise(e) == pc' = "aborted" /\ error' = e

\* ------------------------------------------------------------------- Init
\* The build directory as the run found it: main does not look at it before
\* copy_static_files.
UntouchedBuild == [dir |-> "untouched", metadata |-> "untouched", schedule |-> "untouched"]

Init ==
    /\ fileExists \in [VideoKeys -> BOOLEAN]
    /\ sched_keys \in UNION {[1..n -> ScheduleKeys] : n \in 0..MaxLen}
    /\ start_datetime \in Starts
    /\ days \in Days
    /\ build = UntouchedBuild
    /\ loaded = {}
    /\ duration_ = [k \in VideoKeys |-> <<>>]
    /\ probeCount = [k \in VideoKeys |-> 0]
    /\ firstProbe = [k \in VideoKeys |-> <<>>]
    /\ lastRead = <<>>
    /\ videos = <<>>
    /\ gen = FreshGen
    /\ emitted = <<>>
    /\ result = <<>>
    /\ pc = "load_videos"
    /\ i = 1
    /\ error = "none"

\* ---------------------------------------------------------------- actions
\* load_videos: one pass of its for loop, or its return.
LoadVideos ==
    /\ pc = "load_videos"
    /\ IF i > NumVideos
       THEN /\ pc' = "load_schedule"
            /\ i' = 1
            /\ UNCHANGED <<loaded, error>>
       ELSE IF ~FileFound(i)
       THEN /\ Raise("FileNotFoundError")
            /\ UNCHANGED <<loaded, i>>
       ELSE /\ loaded' = loaded \cup {i}
            /\ i' = i + 1
            /\ UNCHANGED <<pc, error>>
    /\ UNCHANGED <<inputs, cache, videos, gen, emitted, result, build>>

\* load_schedule: one pass of its for loop, or its return.
LoadSchedule ==
    /\ pc = "load_schedule"
    /\ IF i > Len(sched_keys)
       THEN /\ pc' = "readable_sum"
            /\ i' = 1
            /\ UNCHANGED <<videos, error>>
       ELSE IF sched_keys[i] \notin loaded
       THEN /\ Raise("ValueError")
            /\ UNCHANGED <<videos, i>>
       ELSE /\ videos' = Append(videos, sched_keys[i])
            /\ i' = i + 1
            /\ UNCHANGED <<pc, error>>
    /\ UNCHANGED <<inputs, cache, loaded, gen, emitted, result, build>>

\* readable: unlooped_programming_duration, one term of the sum at a time.
ReadableSum ==
    /\ pc = "readable_sum"
    /\ IF i > Len(videos)
       THEN /\ pc' = "readable_loop"
            /\ gen' = FreshGen
            /\ emitted' = <<>>
            /\ UNCHANGED <<cache, i, error>>
       ELSE \E r \in AccessResults(videos[i]) :
            /\ Access(videos[i], r)
            /\ IF r.ok
               THEN i' = i + 1 /\ UNCHANGED <<pc, error>>
               ELSE Raise("ProbeFailure") /\ UNCHANGED i
            /\ UNCHANGED <<gen, emitted>>
    /\ UNCHANGED <<inputs, loaded, videos, result, build>>

\* readable: one pass of the loop over looped_programming().
ReadableNext ==
    /\ pc = "readable_loop"
    /\ gen.state # "done"
    /\ Len(emitted) < MaxEmit
    /\ \E r \in GenReads :
        /\ GenCache(r)
        /\ IF r.ok
           THEN LET a == GenAdvance(gen, r)
                IN  /\ gen' = a.gen
                    /\ emitted' = emitted \o a.out
                    /\ UNCHANGED <<pc, error>>
           ELSE Raise("ProbeFailure") /\ UNCHANGED <<gen, emitted>>
    /\ UNCHANGED <<inputs, loaded, videos, result, build, i>>

\* readable returns and main prints the text.
ReadableReturn ==
    /\ pc = "readable_loop"
    /\ gen.state = "done"
    /\ pc' = "copy_static"
    /\ UNCHANGED <<inputs, cache, loaded, videos, gen, emitted, result, build, i, error>>

\* copy_static_files("static", "build"): a build directory that exists is
\* removed, then static is copied; either way build is afterwards a fresh
\* copy of static holding neither json file.
CopyStaticFiles ==
    /\ pc = "copy_static"
    /\ build' = [dir |-> "fresh", metadata |-> "absent", schedule |-> "absent"]
    /\ pc' = "copy_metadata"
    /\ UNCHANGED <<inputs, cache, loaded, videos, gen, emitted, result, i, error>>

\* shutil.copy2(metadata_file, "build/metadata.json")
CopyMetadata ==
    /\ pc = "copy_metadata"
    /\ build' = [build EXCEPT !.metadata = "written"]
    /\ pc' = "open_schedule"
    /\ UNCHANGED <<inputs, cache, loaded, videos, gen, emitted, result, i, error>>

\* open("build/schedule.json", "w") and the call of write_schedule_json
OpenScheduleJson ==
    /\ pc = "open_schedule"
    /\ build' = [build EXCEPT !.schedule = "empty"]
    /\ gen' = FreshGen
    /\ emitted' = <<>>
    /\ result' = <<>>
    /\ pc' = "json_loop"
    /\ UNCHANGED <<inputs, cache, loaded, videos, i, error>>

\* write_schedule_json: one pass of the loop over looped_programming().
WriteJsonNext ==
    /\ pc = "json_loop"
    /\ gen.state # "done"
    /\ Len(emitted) < MaxEmit
    /\ \E r \in GenReads :
        /\ GenCache(r)
        /\ IF r.ok
           THEN LET a == GenAdvance(gen, r)
                IN  /\ gen' = a.gen
                    /\ emitted' = emitted \o a.out
                    /\ result' = result \o
                                 [j \in 1..Len(a.out) |->
                                     <<Timestamp(a.out[j].t), a.out[j].video>>]
                    /\ UNCHANGED <<pc, error>>
           ELSE Raise("ProbeFailure") /\ UNCHANGED <<gen, emitted, result>>
    /\ UNCHANGED <<inputs, loaded, videos, build, i>>

\* json.dump(result, output_file) and the end of main
JsonDump ==
    /\ pc = "json_loop"
    /\ gen.state = "done"
    /\ build' = [build EXCEPT !.schedule = "written"]
    /\ pc' = "done"
    /\ UNCHANGED <<inputs, cache, loaded, videos, gen, emitted, result, i, error>>

Next ==
    \/ LoadVideos
    \/ LoadSchedule
    \/ ReadableSum
    \/ ReadableNext
    \/ ReadableReturn
    \/ CopyStaticFiles
    \/ CopyMetadata
    \/ OpenScheduleJson
    \/ WriteJsonNext
    \/ JsonDump

Spec == Init /\ [][Next]_vars

\* The program is one thread that always takes its next step.
FairSpec == Init /\ [][Next]_vars /\ WF_vars(Next)

TypeOK ==
    /\ pc \in {"load_videos", "load_schedule", "readable_sum", "readable_loop",
               "copy_static", "copy_metadata", "open_schedule", "json_loop",
               "done", "aborted"}
    /\ gen.state \in {"fresh", "yielded", "done"}
    /\ Len(emitted) <= MaxEmit
\* ----------------------------------------------------- vocabulary of the claims
Dur(k) == duration_[k][1]

AllCached == \A j \in 1..Len(videos) : duration_[videos[j]] # <<>>

AllPositive == AllCached /\ \A j \in 1..Len(videos) : Dur(videos[j]) > 0

SomeNonPositive ==
    \E j \in 1..Len(videos) : duration_[videos[j]] # <<>> /\ Dur(videos[j]) <= 0

GenDone == gen.state = "done"

EndTs == Timestamp(start_datetime) + days * SecondsPerDay

LastEmitted == emitted[Len(emitted)]

LastEnd == Timestamp(LastEmitted.t) + Dur(LastEmitted.video)

InLoop == pc \in {"readable_loop", "json_loop"}

BuildTouched ==
    \/ build.dir = "fresh"
    \/ build.metadata = "written"
    \/ build.schedule \in {"empty", "written"}

RECURSIVE SumDur(_, _)
\* sum of the durations of the first n emitted plays
SumDur(seq, n) == IF n = 0 THEN 0 ELSE SumDur(seq, n - 1) + Dur(seq[n].video)

\* A run whose durations are all positive never reaches the cut-off.
CapUnreached ==
    (InLoop /\ Len(videos) > 0 /\ AllPositive /\ ~GenDone) => Len(emitted) < MaxEmit

\* ---------------------------------------------------------------- claims
\* C1 as stated: once the generator has stopped on a non-empty list of
\* positive durations, the last emitted timestamp is strictly greater than
\* start_datetime + days and the one before it is not.
C1_LastStartPastEnd ==
    (GenDone /\ Len(videos) > 0 /\ AllPositive) =>
        /\ Timestamp(LastEmitted.t) > EndTs
        /\ Len(emitted) >= 2 => Timestamp(emitted[Len(emitted) - 1].t) <= EndTs

\* C1 amended: once the generator has stopped on a non-empty list of
\* positive durations, the END of the last emitted play (its timestamp plus
\* its duration) is strictly greater than start_datetime + days, and the
\* timestamp of the last emitted pair, which is where the schedule would end
\* without it, is not greater whenever days >= 0 or more than one pair was
\* emitted.
C1_Coverage ==
    (GenDone /\ Len(videos) > 0 /\ AllPositive) =>
        /\ LastEnd > EndTs
        /\ (days >= 0 \/ Len(emitted) >= 2) => Timestamp(LastEmitted.t) <= EndTs

C1_Witness ==
    /\ GenDone /\ AllPositive
    /\ Len(emitted) >= 2
    /\ days >= 1
    /\ Timestamp(LastEmitted.t) < EndTs

\* The scenario of C2: three videos of exactly one day each, days = 7.
BoundaryScenario ==
    /\ Len(videos) = 3
    /\ AllCached
    /\ \A j \in 1..3 : Dur(videos[j]) = SecondsPerDay
    /\ days = 7

\* C2 as stated: in the boundary scenario exactly 7 pairs are emitted, the
\* videos at indices 0,1,2,0,1,2,0, the last at start_datetime + 6 days.
C2_SevenEmissions ==
    (BoundaryScenario /\ GenDone) =>
        /\ Len(emitted) = 7
        /\ \A j \in 1..7 : emitted[j].video = videos[((j - 1) % 3) + 1]
        /\ LastEmitted.t = DtAddDays(start_datetime, 6)

\* C2 amended: in the boundary scenario exactly 8 pairs are emitted, the
\* videos at indices 0,1,2,0,1,2,0,1, the last at start_datetime + 7 days:
\* the play that starts exactly at start_datetime + days is emitted.
C2_EightEmissions ==
    (BoundaryScenario /\ GenDone) =>
        /\ Len(emitted) = 8
        /\ \A j \in 1..8 : emitted[j].video = videos[((j - 1) % 3) + 1]
        /\ Timestamp(LastEmitted.t) = Timestamp(start_datetime) + 7 * SecondsPerDay
        /\ Timestamp(LastEmitted.t) = EndTs

C2_Witness ==
    /\ BoundaryScenario /\ GenDone
    /\ pc = "json_loop"
    /\ videos[1] # videos[2]
    /\ Len(result) = 8

\* C3: with an empty video list main signals an error, nothing is emitted
\* and no output is written (the build directory is left alone).
C3_EmptyScheduleRejected ==
    (pc \notin {"load_videos", "load_schedule"} /\ Len(videos) = 0) =>
        /\ emitted = <<>>
        /\ ~BuildTouched
        /\ pc # "done"

\* C4: with days >= 0 a video of zero or negative duration is detected
\* before the generation loop is entered: the generator yields nothing.
C4_NonPositiveDetected ==
    (days >= 0 /\ SomeNonPositive) => (emitted = <<>> /\ gen.state # "yielded")

C6_Cycling ==
    /\ \A j \in 1..Len(emitted) :
          emitted[j].video = videos[((j - 1) % Len(videos)) + 1]
    /\ \A j \in 1..Len(result) :
          result[j][2] = videos[((j - 1) % Len(videos)) + 1]
    /\ pc \notin {"load_videos", "load_schedule", "aborted"} => videos = sched_keys
    /\ Len(videos) <= Len(sched_keys)
    /\ \A j \in 1..Len(videos) : videos[j] = sched_keys[j]

C6_Witness ==
    /\ Len(videos) = 3
    /\ videos[1] # videos[2]
    /\ videos[1] = videos[3]
    /\ Len(emitted) >= 5
    /\ Len(result) >= 5

C8_ComputeOnce ==
    /\ \A k \in VideoKeys :
          /\ probeCount[k] <= 1
          /\ duration_[k] # <<>> => (probeCount[k] = 1 /\ duration_[k] = firstProbe[k])
    /\ lastRead # <<>> =>
          /\ probeCount[lastRead[1]] = 1
          /\ firstProbe[lastRead[1]] = <<lastRead[2]>>

C8_Witness ==
    /\ pc = "json_loop"
    /\ Len(videos) = 3
    /\ videos[1] = videos[3]
    /\ Len(emitted) >= 4
    /\ \A j \in 1..3 : probeCount[videos[j]] = 1

\* C9: after a missing asset, an unknown key or a probe failure the run has
\* aborted and the build directory and its files are as they were; the
\* build is touched only when every asset exists, every key is known and
\* every scheduled duration is already cached.
C9_NoPartialSuccess ==
    /\ error # "none" => (pc = "aborted" /\ build = UntouchedBuild)
    /\ pc = "aborted" => error \in {"FileNotFoundError", "ValueError", "ProbeFailure"}
    /\ (BuildTouched \/ pc \in {"copy_static", "copy_metadata", "open_schedule",
                                "json_loop", "done"}) =>
          /\ \A k \in VideoKeys : fileExists[k]
          /\ \A j \in 1..Len(sched_keys) : sched_keys[j] \in VideoKeys
          /\ videos = sched_keys
          /\ AllCached
          /\ error = "none"

C9_Witness ==
    /\ pc = "aborted"
    /\ error = "ProbeFailure"
    /\ build = UntouchedBuild
    /\ i = 2

\* C10: with days >= 0 on a non-empty list of positive durations every
\* emitted pair starts at or before start_datetime + days; once the
\* generator has stopped the last play ends strictly after
\* start_datetime + days, by at most its own duration, and the generator's
\* clock has advanced by that whole duration.
C10_BoundedOvershoot ==
    (days >= 0 /\ Len(videos) > 0 /\ AllPositive) =>
        /\ \A j \in 1..Len(emitted) : Timestamp(emitted[j].t) <= EndTs
        /\ GenDone =>
              /\ LastEnd > EndTs
              /\ LastEnd - EndTs <= Dur(LastEmitted.video)
              /\ Timestamp(gen.t) = LastEnd

C10_Witness ==
    /\ GenDone /\ AllPositive
    /\ days >= 1
    /\ Len(emitted) >= 3
    /\ LastEnd - EndTs > 0
    /\ LastEnd - EndTs < Dur(LastEmitted.video)
====
